---- MODULE Spec2Model ----
(***************************************************************************)
(* APIClient (src/src/index.ts, lines 23-172): the before/after hook       *)
(* pipeline of fetch and the two listener registries changed by on/off.    *)
(*                                                                         *)
(* The registries are JavaScript Sets.  A Set keeps its entries in         *)
(* insertion order, add() of a present value changes nothing, and a        *)
(* for-of loop over a Set is LIVE: it reads the Set each time it asks for  *)
(* the next entry.  An entry deleted before the loop reaches it is never   *)
(* visited, an entry added while the loop runs is visited, and an entry    *)
(* deleted and added again is visited again.  A registry is modelled as    *)
(* the sequence of its present entries; a loop's position is the number of *)
(* present entries it has passed, so a delete at or before that position   *)
(* moves the position back by one (what the engine does when it drops the  *)
(* deleted entry from the Set's entry list).                               *)
(*                                                                         *)
(* Every await of fetch is a point where other callers run, so fetch is    *)
(* one action per await: the call of a hook, listener or transport is made *)
(* by the action that resumes the previous await.                          *)
(*                                                                         *)
(* Spec is the client of the tests under every interleaving of fetch, on   *)
(* and off.  SpecCalls varies what a single call is given (class, base     *)
(* URL, path, options, fetch or a verb method), SpecChannels has a         *)
(* function registered on either channel, and SpecOrder starts from a      *)
(* client with listeners registered and changes them between calls.        *)
(* SpecLive is the program without its history, under the fairness of the  *)
(* event loop, for what a call does in the end.                            *)
(***************************************************************************)
EXTENDS Integers, Sequences, FiniteSets, TLC

\* ------------------------------------------------------------- bounds
\* Number of fetch calls made on the client.  The calls share nothing but the
\* two registries, which no step of fetch writes: what the listeners of one
\* call do to the registries is an on or off call to every other.
MaxRequests == 1
\* Number of on/off calls made on the client.
MaxCalls == 3

Requests == 1..MaxRequests

\* ------------------------------------------------------------- values
Null == "null"

\* The functions callers pass to on/off, each a distinct function value.
\* b1 and b2 are two closures of one function expression, each setting
\* X-Custom to the value it captured; a1 and a2 check the status.
BeforeFns == {"b1", "b2"}

AfterFns == {"a1", "a2"}

\* A function that fits both channels: it logs its arguments and returns
\* the last of them, the request on "before" and the response on "after".
SharedFns == {"tap"}

\* The source text of a function.
Body(fn) ==
    CASE fn \in BeforeFns -> "request.headers.set(X-Custom, value)"
      [] fn = "a1" -> "if (response.status === 400) throw"
      [] fn = "a2" -> "if (response.status === 401) throw"

\* What a function leaves in the value it returns: the header value a
\* before-listener captured, the trace of an after-listener.
Writes(fn) ==
    CASE fn = "b1" -> "First"
      [] fn = "b2" -> "Second"
      [] fn = "a1" -> "BadRequestChecked"
      [] fn = "a2" -> "UnauthorizedChecked"

\* The classes a client is an instance of: the base class, whose hooks are
\* the identity, and the subclass of the tests.
Classes == {"APIClient", "CustomClient"}

\* Status codes the transport answers with.
Statuses == {200, 400, 401}

\* The failure a hook, a listener or the transport raises; by is the
\* identity of the error object (who created it).
Thrown(by) ==
    [by |-> by,
     name |-> IF by = "fetch" THEN "TypeError" ELSE "Error",
     message |-> CASE by = "fetch" -> "fetch failed"
                   [] by = "before" -> "before failed"
                   [] by \in BeforeFns \cup SharedFns -> "before listener failed"
                   [] by = "a2" -> "Unauthorized"
                   [] OTHER -> "Bad request"]

\* ------------------------------------------------------------- state
VARIABLES
    cls,              \* the class of the client
    baseURL,          \* field baseURL, set by the constructor
    beforeListeners,  \* Set of before-listeners, in insertion order
    afterListeners,   \* Set of after-listeners, in insertion order
    pc,               \* per fetch call: the await it is suspended at
    request,          \* per fetch call: local variable request
    response,         \* per fetch call: local variable response
    iter,             \* per fetch call: position of the running for-of loop
    callee,           \* per fetch call: the function whose promise it awaits
    result,           \* per fetch call: what the returned promise settled to
    args,             \* history: the arguments of the fetch call
    via,              \* history: the method the caller called, and the options it gave
    passed,           \* history: the requests given to the transport and to the after stages
    answer,           \* history: the response the transport gave the call, if any
    invoked,          \* history: the functions the call has invoked, in order
    snap,             \* history: each registry when the call began iterating it
    dirty,            \* history: the on/off calls made while the call iterated a registry
    ncalls            \* history: number of on/off calls made

vars == <<cls, baseURL, beforeListeners, afterListeners, pc, request, response, iter,
          callee, result, args, via, passed, answer, invoked, snap, dirty, ncalls>>

\* ------------------------------------------------------------- Set
Has(set, x) == \E i \in 1..Len(set) : set[i] = x

IndexOf(set, x) == CHOOSE i \in 1..Len(set) : set[i] = x

\* Mutant of SetAdd: appends like Array.prototype.push.
SetAddAlways(set, x) == Append(set, x)

\* Mutant of SetAdd: a new entry goes first, as with Array.prototype.unshift.
SetAddFirst(set, x) == IF Has(set, x) THEN set ELSE <<x>> \o set

\* Set.prototype.add: appends unless present.
SetAdd(set, x) == IF Has(set, x) THEN set ELSE Append(set, x)

\* Mutant of SetDelete: compares the functions by their source text.
SetDeleteByBody(set, x) == SelectSeq(set, LAMBDA y : Body(y) # Body(x))

\* Mutant of SetDelete: array.splice(array.indexOf(x), 1), which removes the
\* last entry when x is absent (indexOf gives -1).
SetDeleteSplice(set, x) ==
    IF Has(set, x) THEN SelectSeq(set, LAMBDA y : y # x)
    ELSE SubSeq(set, 1, Len(set) - 1)

\* Set.prototype.delete: removes the entry that is the same value.
SetDelete(set, x) == SelectSeq(set, LAMBDA y : y # x)

\* The position of a running loop over set after delete(x).
IterAfterDelete(set, x, i) ==
    IF Has(set, x) /\ IndexOf(set, x) <= i THEN i - 1 ELSE i

\* The loop at position i has a next entry.
HasNext(set, i) == i < Len(set)

Range(seq) == {seq[i] : i \in 1..Len(seq)}

Count(seq, x) == Cardinality({i \in 1..Len(seq) : seq[i] = x})

\* ------------------------------------------------------------- URL
\* A URL is its origin and the segments of its pathname: /api/ is
\* <<"api", "">> and / is <<"">>.  A path, the string fetch is given, is
\* the sequence path.split("/"): "/path" is <<"", "path">>, "users" is
\* <<"users">>.
URL(origin, pathname) == [origin |-> origin, pathname |-> pathname]

\* The URL of the tests.
ExampleURL == URL("https://example.com", <<"">>)

\* A URL's path without its last segment.
Shorten(pathname) ==
    IF pathname = <<>> THEN pathname ELSE SubSeq(pathname, 1, Len(pathname) - 1)

RECURSIVE PathState(_, _)
\* The URL parser reading the segments of input onto the path out: ".."
\* drops the last segment, "." none, and either leaves an empty segment when
\* it ends the input.
PathState(input, out) ==
    IF input = <<>> THEN out
    ELSE LET seg == Head(input)
             rest == Tail(input)
         IN  CASE seg = ".." ->
                    PathState(rest, IF rest = <<>> THEN Append(Shorten(out), "")
                                                   ELSE Shorten(out))
               [] seg = "." ->
                    PathState(rest, IF rest = <<>> THEN Append(out, "") ELSE out)
               [] OTHER -> PathState(rest, Append(out, seg))

\* Mutant of ResolveURL: the path is put after the base URL's own path, as
\* joining the two strings would.
ResolveURLJoined(path, base) ==
    URL(base.origin,
        SelectSeq(base.pathname, LAMBDA seg : seg # "")
            \o SelectSeq(path, LAMBDA seg : seg # ""))

\* new URL(path, base): a path that starts with / replaces the base's path,
\* any other path replaces the last segment of the base's path.
ResolveURL(path, base) ==
    IF Head(path) = ""
    THEN URL(base.origin, PathState(Tail(path), <<>>))
    ELSE URL(base.origin, PathState(path, Shorten(base.pathname)))

RECURSIVE Pathname(_)
\* The pathname of a URL as a string.
Pathname(segs) == IF segs = <<>> THEN "" ELSE "/" \o Head(segs) \o Pathname(Tail(segs))

\* URL.prototype.toString.
Href(url) == url.origin \o Pathname(url.pathname)

\* The base URLs clients are constructed with: https://example.com,
\* https://example.com/api/, https://example.com/api/v1
BaseURLs ==
    {ExampleURL,
     URL("https://example.com", <<"api", "">>),
     URL("https://example.com", <<"api", "v1">>)}

\* The paths calls are made with: "/path", "users", "../users"
CallPaths == {<<"", "path">>, <<"users">>, <<"..", "users">>}

\* ------------------------------------------------------------- options
\* The options of a call made without any.
Undefined == [k \in {} |-> Null]

\* Mutant of ObjectSpread: { ...b, ...a }, the first object's properties win.
ObjectSpreadFirstWins(a, b) ==
    [k \in DOMAIN a \cup DOMAIN b |-> IF k \in DOMAIN a THEN a[k] ELSE b[k]]

\* The object literal { ...a, ...b }: the properties of a, then those of b
\* over them.
ObjectSpread(a, b) ==
    [k \in DOMAIN a \cup DOMAIN b |-> IF k \in DOMAIN b THEN b[k] ELSE a[k]]

\* A property of the options, or the Request constructor's default for it.
Option(init, key, default) == IF key \in DOMAIN init THEN init[key] ELSE default

\* ------------------------------------------------------------- hooks
\* new Request(new URL(path, baseURL).toString(), init)
NewRequest(path, init) ==
    [url |-> Href(ResolveURL(path, baseURL)),
     method |-> Option(init, "method", "GET"),
     signal |-> Option(init, "signal", Null),
     marks |-> <<>>]

\* The subclass-level before hook: the base class returns the request, the
\* subclass of the tests sets X-Custom on it, and a subclass that sends
\* every call to a mirror returns new Request(mirror, request).
Before(c, req) ==
    CASE c = "CustomClient" -> [req EXCEPT !.marks = Append(@, "Sub-Class")]
      [] c = "MirrorClient" -> [req EXCEPT !.url = "https://mirror.example.com/"]
      [] OTHER -> req

\* The subclass-level after hook, when it returns.
After(c, req, res) == res

\* Mutant of AfterRaises: the after hook of every class rejects a response
\* that is not ok, as a client that checks response.ok would.
AfterRaisesNotOk(c, res) == res.status >= 400

\* The subclass-level after hook raises instead of returning.
AfterRaises(c, res) == c = "CustomClient" /\ res.status = 400

\* A before-listener, when it returns.
BeforeListener(fn, req) ==
    IF fn \in SharedFns THEN req ELSE [req EXCEPT !.marks = Append(@, Writes(fn))]

\* An after-listener, when it returns.
AfterListener(fn, req, res) ==
    IF fn \in SharedFns THEN res ELSE [res EXCEPT !.marks = Append(@, Writes(fn))]

\* An after-listener raises instead of returning.
AfterListenerRaises(fn, res) ==
    \/ fn = "a1" /\ res.status = 400
    \/ fn = "a2" /\ res.status = 401

\* The before hook of the base class cannot fail; everything else in the
\* before channel awaits something that can.
BeforeCanRaise(c) == c = "CustomClient"

\* The value of the X-Custom header of a request: the last write wins.
XCustom(req) == IF req.marks = <<>> THEN Null ELSE req.marks[Len(req.marks)]

\* The transport's answer to a request.
TransportResponse(req, status) ==
    [status |-> status, body |-> XCustom(req), marks |-> <<>>]

\* The promise fetch returns: pending, then fulfilled with a response or
\* rejected with a failure.
Pending == [state |-> "pending"]

Fulfilled(res) == [state |-> "fulfilled", value |-> res]

Rejected(err) == [state |-> "rejected", reason |-> err]

\* ------------------------------------------------------------- Init
Init ==
    /\ cls \in Classes
    /\ baseURL = ExampleURL
    /\ beforeListeners = <<>>
    /\ afterListeners = <<>>
    /\ pc = [r \in Requests |-> "Idle"]
    /\ request = [r \in Requests |-> Null]
    /\ response = [r \in Requests |-> Null]
    /\ iter = [r \in Requests |-> 0]
    /\ callee = [r \in Requests |-> Null]
    /\ result = [r \in Requests |-> Pending]
    /\ args = [r \in Requests |-> Null]
    /\ via = [r \in Requests |-> Null]
    /\ passed = [r \in Requests |-> {}]
    /\ answer = [r \in Requests |-> <<>>]
    /\ invoked = [r \in Requests |-> <<>>]
    /\ snap = [r \in Requests |-> [before |-> <<>>, after |-> <<>>]]
    /\ dirty = [r \in Requests |-> {}]
    /\ ncalls = 0

\* The await at which a call iterates the listeners of an event.
ListenerStage(event) == IF event = "before" THEN "BeforeListeners" ELSE "AfterListeners"

\* ------------------------------------------------------------- on / off
\* An on/off call seen by the calls that are iterating the event's registry:
\* kind is "on" or "off" when the call changes the registry, "on-present" or
\* "off-absent" when it does not.
Touch(event, kind) ==
    [r \in Requests |->
        IF pc[r] = ListenerStage(event) THEN dirty[r] \cup {<<event, kind>>} ELSE dirty[r]]

\* The Set of an event.
Registry(event) == IF event = "before" THEN beforeListeners ELSE afterListeners

\* Mutant of On: one Set holds the listeners of both events.
OnEither(event, listener) ==
    /\ ncalls < MaxCalls
    /\ beforeListeners' = SetAdd(beforeListeners, listener)
    /\ afterListeners' = SetAdd(afterListeners, listener)
    /\ dirty' = Touch(event, IF Has(Registry(event), listener) THEN "on-present" ELSE "on")
    /\ ncalls' = ncalls + 1
    /\ UNCHANGED <<cls, baseURL, pc, request, response, iter, callee, result, args, via, passed, answer, invoked, snap>>

\* Lines 147-157: adds the listener to the event's Set.
On(event, listener) ==
    /\ ncalls < MaxCalls
    /\ IF event = "before"
       THEN /\ beforeListeners' = SetAdd(beforeListeners, listener)
            /\ UNCHANGED afterListeners
       ELSE /\ afterListeners' = SetAdd(afterListeners, listener)
            /\ UNCHANGED beforeListeners
    /\ dirty' = Touch(event, IF Has(Registry(event), listener) THEN "on-present" ELSE "on")
    /\ ncalls' = ncalls + 1
    /\ UNCHANGED <<cls, baseURL, pc, request, response, iter, callee, result, args, via, passed, answer, invoked, snap>>

\* Lines 161-171: deletes the listener from the event's Set; the loops that
\* are running over that Set go on from the entry after the last one they
\* visited.
Off(event, listener) ==
    /\ ncalls < MaxCalls
    /\ IF event = "before"
       THEN /\ beforeListeners' = SetDelete(beforeListeners, listener)
            /\ UNCHANGED afterListeners
            /\ iter' = [r \in Requests |->
                          IF pc[r] = "BeforeListeners"
                          THEN IterAfterDelete(beforeListeners, listener, iter[r])
                          ELSE iter[r]]
       ELSE /\ afterListeners' = SetDelete(afterListeners, listener)
            /\ UNCHANGED beforeListeners
            /\ iter' = [r \in Requests |->
                          IF pc[r] = "AfterListeners"
                          THEN IterAfterDelete(afterListeners, listener, iter[r])
                          ELSE iter[r]]
    /\ dirty' = Touch(event, IF Has(Registry(event), listener) THEN "off" ELSE "off-absent")
    /\ ncalls' = ncalls + 1
    /\ UNCHANGED <<cls, baseURL, pc, request, response, callee, result, args, via, passed, answer, invoked, snap>>

\* ------------------------------------------------------------- fetch
\* Lines 66-70: builds the request and calls the before hook.  Calls are
\* numbered in the order they are made; caller is the method of the client
\* the call came in by, with the options it was given.
FetchFrom(r, path, init, caller) ==
    /\ pc[r] = "Idle"
    /\ \A q \in Requests : q < r => pc[q] # "Idle"
    /\ request' = [request EXCEPT ![r] = NewRequest(path, init)]
    /\ pc' = [pc EXCEPT ![r] = "BeforeHook"]
    /\ callee' = [callee EXCEPT ![r] = "before"]
    /\ invoked' = [invoked EXCEPT ![r] = Append(@, "before")]
    /\ args' = [args EXCEPT ![r] = [path |-> path, init |-> init]]
    /\ via' = [via EXCEPT ![r] = caller]
    /\ UNCHANGED <<cls, baseURL, beforeListeners, afterListeners, response, iter, result,
                   passed, answer, snap, dirty, ncalls>>

\* fetch called by the client's user.
Fetch(r, path, init) == FetchFrom(r, path, init, [name |-> "fetch", path |-> path, init |-> init])

\* Lines 97-99: this.fetch(path, { ...init, method: "GET" }).
Get(r, path, init) ==
    FetchFrom(r, path, ObjectSpread(init, [method |-> "GET"]),
              [name |-> "get", path |-> path, init |-> init])

\* Lines 108-110.
Post(r, path, init) ==
    FetchFrom(r, path, ObjectSpread(init, [method |-> "POST"]),
              [name |-> "post", path |-> path, init |-> init])

\* Lines 119-121.
Put(r, path, init) ==
    FetchFrom(r, path, ObjectSpread(init, [method |-> "PUT"]),
              [name |-> "put", path |-> path, init |-> init])

\* Lines 130-132.
Patch(r, path, init) ==
    FetchFrom(r, path, ObjectSpread(init, [method |-> "PATCH"]),
              [name |-> "patch", path |-> path, init |-> init])

\* Lines 141-143.
Delete(r, path, init) ==
    FetchFrom(r, path, ObjectSpread(init, [method |-> "DELETE"]),
              [name |-> "delete", path |-> path, init |-> init])

\* Mutant of Fail: the failure is recorded and the call goes on.
FailKeepsRunning(r, err) ==
    /\ result' = [result EXCEPT ![r] = Rejected(err)]
    /\ UNCHANGED <<cls, baseURL, beforeListeners, afterListeners, pc, request, response, iter,
                   callee, args, via, passed, answer, invoked, snap, dirty, ncalls>>

\* Mutant of Fail: the failure is wrapped in an error of the client's own.
FailWrapped(r, err) ==
    /\ pc' = [pc EXCEPT ![r] = "Failed"]
    /\ callee' = [callee EXCEPT ![r] = Null]
    /\ result' = [result EXCEPT ![r] =
                    Rejected([by |-> "APIClient", name |-> "Error", message |-> err.message])]
    /\ UNCHANGED <<cls, baseURL, beforeListeners, afterListeners, request, response, iter,
                   args, via, passed, answer, invoked, snap, dirty, ncalls>>

\* A rejected await: the async function fetch rejects with the same reason.
Fail(r, err) ==
    /\ pc' = [pc EXCEPT ![r] = "Failed"]
    /\ callee' = [callee EXCEPT ![r] = Null]
    /\ result' = [result EXCEPT ![r] = Rejected(err)]
    /\ UNCHANGED <<cls, baseURL, beforeListeners, afterListeners, request, response, iter,
                   args, via, passed, answer, invoked, snap, dirty, ncalls>>

\* Lines 73-78 with the loop at position i and req the value of request:
\* calls the next before-listener, or the transport when there is none.
BeforeLoop(r, req, i) ==
    /\ request' = [request EXCEPT ![r] = req]
    /\ IF HasNext(beforeListeners, i)
       THEN /\ pc' = [pc EXCEPT ![r] = "BeforeListeners"]
            /\ iter' = [iter EXCEPT ![r] = i + 1]
            /\ callee' = [callee EXCEPT ![r] = beforeListeners[i + 1]]
            /\ invoked' = [invoked EXCEPT ![r] = Append(@, beforeListeners[i + 1])]
            /\ UNCHANGED passed
       ELSE /\ pc' = [pc EXCEPT ![r] = "Dispatched"]
            /\ iter' = [iter EXCEPT ![r] = 0]
            /\ callee' = [callee EXCEPT ![r] = "fetch"]
            /\ invoked' = [invoked EXCEPT ![r] = Append(@, "fetch")]
            /\ passed' = [passed EXCEPT ![r] = @ \cup {req}]
    /\ UNCHANGED <<cls, baseURL, beforeListeners, afterListeners, response, result,
                   args, via, answer, dirty, ncalls>>

\* Lines 70-78: the before hook returned.
BeforeHookReturn(r) ==
    /\ pc[r] = "BeforeHook"
    /\ snap' = [snap EXCEPT ![r].before = beforeListeners]
    /\ IF Len(beforeListeners) > 0
       THEN BeforeLoop(r, Before(cls, request[r]), 0)
       ELSE BeforeLoop(r, Before(cls, request[r]), Len(beforeListeners))

\* Line 70: the before hook raised.
BeforeHookThrow(r) ==
    /\ pc[r] = "BeforeHook"
    /\ BeforeCanRaise(cls)
    /\ Fail(r, Thrown("before"))

\* Mutant of BeforeListenerReturn: the listener's result is not assigned.
BeforeListenerReturnDropsResult(r) ==
    /\ pc[r] = "BeforeListeners"
    /\ UNCHANGED snap
    /\ BeforeLoop(r, request[r], iter[r])

\* Lines 73-78: a before-listener returned.
BeforeListenerReturn(r) ==
    /\ pc[r] = "BeforeListeners"
    /\ UNCHANGED snap
    /\ BeforeLoop(r, BeforeListener(callee[r], request[r]), iter[r])

\* Line 74: a before-listener raised.
BeforeListenerThrow(r) ==
    /\ pc[r] = "BeforeListeners"
    /\ Fail(r, Thrown(callee[r]))

\* Mutant of TransportReturn: the after hook is given the request fetch
\* built, not the one the before channel returned.
TransportReturnPassesBuilt(r, status) ==
    /\ pc[r] = "Dispatched"
    /\ response' = [response EXCEPT ![r] = TransportResponse(request[r], status)]
    /\ pc' = [pc EXCEPT ![r] = "AfterHook"]
    /\ callee' = [callee EXCEPT ![r] = "after"]
    /\ invoked' = [invoked EXCEPT ![r] = Append(@, "after")]
    /\ passed' = [passed EXCEPT ![r] = @ \cup {NewRequest(args[r].path, args[r].init)}]
    /\ answer' = [answer EXCEPT ![r] = <<TransportResponse(request[r], status)>>]
    /\ UNCHANGED <<cls, baseURL, beforeListeners, afterListeners, request, iter, result,
                   args, via, snap, dirty, ncalls>>

\* Lines 78-79: the transport answered; calls the after hook.
TransportReturn(r, status) ==
    /\ pc[r] = "Dispatched"
    /\ response' = [response EXCEPT ![r] = TransportResponse(request[r], status)]
    /\ pc' = [pc EXCEPT ![r] = "AfterHook"]
    /\ callee' = [callee EXCEPT ![r] = "after"]
    /\ invoked' = [invoked EXCEPT ![r] = Append(@, "after")]
    /\ passed' = [passed EXCEPT ![r] = @ \cup {request[r]}]
    /\ answer' = [answer EXCEPT ![r] = <<TransportResponse(request[r], status)>>]
    /\ UNCHANGED <<cls, baseURL, beforeListeners, afterListeners, request, iter, result,
                   args, via, snap, dirty, ncalls>>

\* Mutant of TransportThrow: the failure is caught and the after channel runs
\* on a response made up for it.
TransportThrowAsResponse(r) ==
    /\ pc[r] = "Dispatched"
    /\ response' = [response EXCEPT ![r] = TransportResponse(request[r], 400)]
    /\ pc' = [pc EXCEPT ![r] = "AfterHook"]
    /\ callee' = [callee EXCEPT ![r] = "after"]
    /\ invoked' = [invoked EXCEPT ![r] = Append(@, "after")]
    /\ passed' = [passed EXCEPT ![r] = @ \cup {request[r]}]
    /\ UNCHANGED <<cls, baseURL, beforeListeners, afterListeners, request, iter, result,
                   args, via, answer, snap, dirty, ncalls>>

\* Mutant of TransportThrow: the failure is caught and the request sent again.
TransportThrowRetries(r) ==
    /\ pc[r] = "Dispatched"
    /\ invoked' = [invoked EXCEPT ![r] = Append(@, "fetch")]
    /\ UNCHANGED <<cls, baseURL, beforeListeners, afterListeners, pc, request, response,
                   iter, callee, result, args, via, passed, answer, snap, dirty, ncalls>>

\* Line 78: the transport failed.
TransportThrow(r) ==
    /\ pc[r] = "Dispatched"
    /\ Fail(r, Thrown("fetch"))

\* Mutant of AfterLoop: the listeners are taken off a queue, so the registry
\* is empty when the call returns.
AfterLoopDrains(r, res, i) ==
    /\ response' = [response EXCEPT ![r] = res]
    /\ IF HasNext(afterListeners, i)
       THEN /\ pc' = [pc EXCEPT ![r] = "AfterListeners"]
            /\ iter' = [iter EXCEPT ![r] = i + 1]
            /\ callee' = [callee EXCEPT ![r] = afterListeners[i + 1]]
            /\ invoked' = [invoked EXCEPT ![r] = Append(@, afterListeners[i + 1])]
            /\ passed' = [passed EXCEPT ![r] = @ \cup {request[r]}]
            /\ UNCHANGED <<result, afterListeners>>
       ELSE /\ pc' = [pc EXCEPT ![r] = "Completed"]
            /\ iter' = [iter EXCEPT ![r] = 0]
            /\ callee' = [callee EXCEPT ![r] = Null]
            /\ result' = [result EXCEPT ![r] = Fulfilled(res)]
            /\ afterListeners' = <<>>
            /\ UNCHANGED <<invoked, passed>>
    /\ UNCHANGED <<cls, baseURL, beforeListeners, request,
                   args, via, answer, dirty, ncalls>>

\* Lines 82-87 with the loop at position i and res the value of response:
\* calls the next after-listener with the request and res, or returns res
\* when there is none.
AfterLoop(r, res, i) ==
    /\ response' = [response EXCEPT ![r] = res]
    /\ IF HasNext(afterListeners, i)
       THEN /\ pc' = [pc EXCEPT ![r] = "AfterListeners"]
            /\ iter' = [iter EXCEPT ![r] = i + 1]
            /\ callee' = [callee EXCEPT ![r] = afterListeners[i + 1]]
            /\ invoked' = [invoked EXCEPT ![r] = Append(@, afterListeners[i + 1])]
            /\ passed' = [passed EXCEPT ![r] = @ \cup {request[r]}]
            /\ UNCHANGED result
       ELSE /\ pc' = [pc EXCEPT ![r] = "Completed"]
            /\ iter' = [iter EXCEPT ![r] = 0]
            /\ callee' = [callee EXCEPT ![r] = Null]
            /\ result' = [result EXCEPT ![r] = Fulfilled(res)]
            /\ UNCHANGED <<invoked, passed>>
    /\ UNCHANGED <<cls, baseURL, beforeListeners, afterListeners, request,
                   args, via, answer, dirty, ncalls>>

\* Mutant of AfterHookReturn: the request is sent again.
AfterHookReturnRedispatches(r) ==
    /\ pc[r] = "AfterHook"
    /\ pc' = [pc EXCEPT ![r] = "Dispatched"]
    /\ callee' = [callee EXCEPT ![r] = "fetch"]
    /\ invoked' = [invoked EXCEPT ![r] = Append(@, "fetch")]
    /\ UNCHANGED <<cls, baseURL, beforeListeners, afterListeners, request, response, iter, result,
                   args, via, passed, answer, snap, dirty, ncalls>>

\* Lines 79-87: the after hook returned.
AfterHookReturn(r) ==
    /\ pc[r] = "AfterHook"
    /\ ~AfterRaises(cls, response[r])
    /\ snap' = [snap EXCEPT ![r].after = afterListeners]
    /\ IF Len(afterListeners) > 0
       THEN AfterLoop(r, After(cls, request[r], response[r]), 0)
       ELSE AfterLoop(r, After(cls, request[r], response[r]), Len(afterListeners))

\* Line 79: the after hook raised.
AfterHookThrow(r) ==
    /\ pc[r] = "AfterHook"
    /\ AfterRaises(cls, response[r])
    /\ Fail(r, Thrown("after"))

\* Mutant of AfterListenerReturn: the listener's result is not assigned.
AfterListenerReturnDropsResult(r) ==
    /\ pc[r] = "AfterListeners"
    /\ ~AfterListenerRaises(callee[r], response[r])
    /\ UNCHANGED snap
    /\ AfterLoop(r, response[r], iter[r])

\* Lines 82-87: an after-listener returned.
AfterListenerReturn(r) ==
    /\ pc[r] = "AfterListeners"
    /\ ~AfterListenerRaises(callee[r], response[r])
    /\ UNCHANGED snap
    /\ AfterLoop(r, AfterListener(callee[r], request[r], response[r]), iter[r])

\* Line 83: an after-listener raised.
AfterListenerThrow(r) ==
    /\ pc[r] = "AfterListeners"
    /\ AfterListenerRaises(callee[r], response[r])
    /\ Fail(r, Thrown(callee[r]))

\* ------------------------------------------------------------- Next
\* "/path"
Paths == {<<"", "path">>}

Inits == {[method |-> "GET"]}

Next ==
    \/ \E l \in BeforeFns : On("before", l)
    \/ \E l \in AfterFns : On("after", l)
    \/ \E l \in BeforeFns : Off("before", l)
    \/ \E l \in AfterFns : Off("after", l)
    \/ \E r \in Requests, p \in Paths, i \in Inits : Fetch(r, p, i)
    \/ \E r \in Requests : BeforeHookReturn(r)
    \/ \E r \in Requests : BeforeHookThrow(r)
    \/ \E r \in Requests : BeforeListenerReturn(r)
    \/ \E r \in Requests : BeforeListenerThrow(r)
    \/ \E r \in Requests, s \in Statuses : TransportReturn(r, s)
    \/ \E r \in Requests : TransportThrow(r)
    \/ \E r \in Requests : AfterHookReturn(r)
    \/ \E r \in Requests : AfterHookThrow(r)
    \/ \E r \in Requests : AfterListenerReturn(r)
    \/ \E r \in Requests : AfterListenerThrow(r)

Spec == Init /\ [][Next]_vars

\* ------------------------------------------------------------- SpecCalls
\* A client of any class and base URL, configured with on, and then one call
\* of fetch or of a verb method with every path and options.  What on, off
\* and other calls do while a call runs is in Spec.
CallClasses == Classes \cup {"MirrorClient"}

\* No options, options without a method, options that carry a method.
CallInits ==
    {Undefined, [signal |-> "timeout"], [method |-> "POST", signal |-> "timeout"]}

InitCalls ==
    /\ cls \in CallClasses
    /\ baseURL \in BaseURLs
    /\ beforeListeners = <<>>
    /\ afterListeners = <<>>
    /\ pc = [r \in Requests |-> "Idle"]
    /\ request = [r \in Requests |-> Null]
    /\ response = [r \in Requests |-> Null]
    /\ iter = [r \in Requests |-> 0]
    /\ callee = [r \in Requests |-> Null]
    /\ result = [r \in Requests |-> Pending]
    /\ args = [r \in Requests |-> Null]
    /\ via = [r \in Requests |-> Null]
    /\ passed = [r \in Requests |-> {}]
    /\ answer = [r \in Requests |-> <<>>]
    /\ invoked = [r \in Requests |-> <<>>]
    /\ snap = [r \in Requests |-> [before |-> <<>>, after |-> <<>>]]
    /\ dirty = [r \in Requests |-> {}]
    /\ ncalls = 0

\* No call has been made.
NoCall == \A r \in Requests : pc[r] = "Idle"

NextCalls ==
    \/ \E l \in BeforeFns : NoCall /\ On("before", l)
    \/ \E l \in AfterFns : NoCall /\ On("after", l)
    \/ \E r \in Requests, p \in CallPaths, i \in CallInits : NoCall /\ Fetch(r, p, i)
    \/ \E r \in Requests, p \in CallPaths, i \in CallInits : NoCall /\ Get(r, p, i)
    \/ \E r \in Requests, p \in CallPaths, i \in CallInits : NoCall /\ Post(r, p, i)
    \/ \E r \in Requests, p \in CallPaths, i \in CallInits : NoCall /\ Put(r, p, i)
    \/ \E r \in Requests, p \in CallPaths, i \in CallInits : NoCall /\ Patch(r, p, i)
    \/ \E r \in Requests, p \in CallPaths, i \in CallInits : NoCall /\ Delete(r, p, i)
    \/ \E r \in Requests : BeforeHookReturn(r)
    \/ \E r \in Requests : BeforeHookThrow(r)
    \/ \E r \in Requests : BeforeListenerReturn(r)
    \/ \E r \in Requests : BeforeListenerThrow(r)
    \/ \E r \in Requests, s \in Statuses : TransportReturn(r, s)
    \/ \E r \in Requests : TransportThrow(r)
    \/ \E r \in Requests : AfterHookReturn(r)
    \/ \E r \in Requests : AfterHookThrow(r)
    \/ \E r \in Requests : AfterListenerReturn(r)
    \/ \E r \in Requests : AfterListenerThrow(r)

SpecCalls == InitCalls /\ [][NextCalls]_vars

\* ------------------------------------------------------------- SpecChannels
\* The client of Spec with a function that callers register on either
\* channel, or on both.
ChannelBeforeFns == SharedFns

ChannelAfterFns == SharedFns \cup {"a1"}

NextChannels ==
    \/ \E l \in ChannelBeforeFns : On("before", l)
    \/ \E l \in ChannelAfterFns : On("after", l)
    \/ \E l \in ChannelBeforeFns : Off("before", l)
    \/ \E l \in ChannelAfterFns : Off("after", l)
    \/ \E r \in Requests, p \in Paths, i \in Inits : Fetch(r, p, i)
    \/ \E r \in Requests : BeforeHookReturn(r)
    \/ \E r \in Requests : BeforeHookThrow(r)
    \/ \E r \in Requests : BeforeListenerReturn(r)
    \/ \E r \in Requests : BeforeListenerThrow(r)
    \/ \E r \in Requests, s \in Statuses : TransportReturn(r, s)
    \/ \E r \in Requests : TransportThrow(r)
    \/ \E r \in Requests : AfterHookReturn(r)
    \/ \E r \in Requests : AfterHookThrow(r)
    \/ \E r \in Requests : AfterListenerReturn(r)
    \/ \E r \in Requests : AfterListenerThrow(r)

SpecChannels == Init /\ [][NextChannels]_vars

\* ------------------------------------------------------------- SpecOrder
\* The client once two listeners are registered on each channel, as in the
\* tests with multiple interceptors; ncalls counts the on and off calls made
\* from then on, which the callers make between calls of fetch.  What on and
\* off do to a call that is running is in Spec.
InitOrder ==
    /\ cls \in Classes
    /\ baseURL = ExampleURL
    /\ beforeListeners = <<"b1", "b2">>
    /\ afterListeners = <<"a1", "a2">>
    /\ pc = [r \in Requests |-> "Idle"]
    /\ request = [r \in Requests |-> Null]
    /\ response = [r \in Requests |-> Null]
    /\ iter = [r \in Requests |-> 0]
    /\ callee = [r \in Requests |-> Null]
    /\ result = [r \in Requests |-> Pending]
    /\ args = [r \in Requests |-> Null]
    /\ via = [r \in Requests |-> Null]
    /\ passed = [r \in Requests |-> {}]
    /\ answer = [r \in Requests |-> <<>>]
    /\ invoked = [r \in Requests |-> <<>>]
    /\ snap = [r \in Requests |-> [before |-> <<>>, after |-> <<>>]]
    /\ dirty = [r \in Requests |-> {}]
    /\ ncalls = 0

\* No call is running.
Quiet == \A r \in Requests : pc[r] \in {"Idle", "Completed", "Failed"}

NextOrder ==
    \/ \E l \in BeforeFns : Quiet /\ On("before", l)
    \/ \E l \in AfterFns : Quiet /\ On("after", l)
    \/ \E l \in BeforeFns : Quiet /\ Off("before", l)
    \/ \E l \in AfterFns : Quiet /\ Off("after", l)
    \/ \E r \in Requests, p \in Paths, i \in Inits : Fetch(r, p, i)
    \/ \E r \in Requests : BeforeHookReturn(r)
    \/ \E r \in Requests : BeforeHookThrow(r)
    \/ \E r \in Requests : BeforeListenerReturn(r)
    \/ \E r \in Requests : BeforeListenerThrow(r)
    \/ \E r \in Requests, s \in Statuses : TransportReturn(r, s)
    \/ \E r \in Requests : TransportThrow(r)
    \/ \E r \in Requests : AfterHookReturn(r)
    \/ \E r \in Requests : AfterHookThrow(r)
    \/ \E r \in Requests : AfterListenerReturn(r)
    \/ \E r \in Requests : AfterListenerThrow(r)

SpecOrder == InitOrder /\ [][NextOrder]_vars

\* ------------------------------------------------------------- SpecLive
\* The client without the history variables, which grow with every call that
\* is made: a behaviour in which the program comes back to a state it was in
\* is a cycle, and a call that never returns is a behaviour that goes round
\* one forever.  The callers register the function that fits both channels,
\* which returns what it is given; on and off are called any number of
\* times.  Each action is the program's part of the action of Spec it is
\* named after, and leaves args, via, passed, answer, invoked, snap, dirty
\* and ncalls as they are.

\* The state after construction.  The variables request and response of a
\* call that has not declared them yet are undefined.
InitLive ==
    /\ cls \in Classes
    /\ baseURL = ExampleURL
    /\ beforeListeners = <<>>
    /\ afterListeners = <<>>
    /\ pc = [r \in Requests |-> "Idle"]
    /\ request = [r \in Requests |-> Undefined]
    /\ response = [r \in Requests |-> Undefined]
    /\ iter = [r \in Requests |-> 0]
    /\ callee = [r \in Requests |-> Null]
    /\ result = [r \in Requests |-> Pending]
    /\ args = [r \in Requests |-> Null]
    /\ via = [r \in Requests |-> Null]
    /\ passed = [r \in Requests |-> {}]
    /\ answer = [r \in Requests |-> <<>>]
    /\ invoked = [r \in Requests |-> <<>>]
    /\ snap = [r \in Requests |-> [before |-> <<>>, after |-> <<>>]]
    /\ dirty = [r \in Requests |-> {}]
    /\ ncalls = 0

\* Lines 147-157.
OnLive(event, listener) ==
    /\ IF event = "before"
       THEN /\ beforeListeners' = SetAdd(beforeListeners, listener)
            /\ UNCHANGED afterListeners
       ELSE /\ afterListeners' = SetAdd(afterListeners, listener)
            /\ UNCHANGED beforeListeners
    /\ UNCHANGED <<cls, baseURL, pc, request, response, iter, callee, result,
                   args, via, passed, answer, invoked, snap, dirty, ncalls>>

\* Lines 161-171.
OffLive(event, listener) ==
    /\ IF event = "before"
       THEN /\ beforeListeners' = SetDelete(beforeListeners, listener)
            /\ UNCHANGED afterListeners
            /\ iter' = [r \in Requests |->
                          IF pc[r] = "BeforeListeners"
                          THEN IterAfterDelete(beforeListeners, listener, iter[r])
                          ELSE iter[r]]
       ELSE /\ afterListeners' = SetDelete(afterListeners, listener)
            /\ UNCHANGED beforeListeners
            /\ iter' = [r \in Requests |->
                          IF pc[r] = "AfterListeners"
                          THEN IterAfterDelete(afterListeners, listener, iter[r])
                          ELSE iter[r]]
    /\ UNCHANGED <<cls, baseURL, pc, request, response, callee, result,
                   args, via, passed, answer, invoked, snap, dirty, ncalls>>

\* Lines 66-70.
FetchLive(r, path, init) ==
    /\ pc[r] = "Idle"
    /\ \A q \in Requests : q < r => pc[q] # "Idle"
    /\ request' = [request EXCEPT ![r] = NewRequest(path, init)]
    /\ pc' = [pc EXCEPT ![r] = "BeforeHook"]
    /\ callee' = [callee EXCEPT ![r] = "before"]
    /\ UNCHANGED <<cls, baseURL, beforeListeners, afterListeners, response, iter, result,
                   args, via, passed, answer, invoked, snap, dirty, ncalls>>

\* Lines 73-78 with the loop at position i and req the value of request.
BeforeLoopLive(r, req, i) ==
    /\ request' = [request EXCEPT ![r] = req]
    /\ IF HasNext(beforeListeners, i)
       THEN /\ pc' = [pc EXCEPT ![r] = "BeforeListeners"]
            /\ iter' = [iter EXCEPT ![r] = i + 1]
            /\ callee' = [callee EXCEPT ![r] = beforeListeners[i + 1]]
       ELSE /\ pc' = [pc EXCEPT ![r] = "Dispatched"]
            /\ iter' = [iter EXCEPT ![r] = 0]
            /\ callee' = [callee EXCEPT ![r] = "fetch"]
    /\ UNCHANGED <<cls, baseURL, beforeListeners, afterListeners, response, result,
                   args, via, passed, answer, invoked, snap, dirty, ncalls>>

\* Lines 70-78: the before hook returned.
BeforeHookReturnLive(r) ==
    /\ pc[r] = "BeforeHook"
    /\ BeforeLoopLive(r, Before(cls, request[r]), 0)

\* Lines 73-78: a before-listener returned.
BeforeListenerReturnLive(r) ==
    /\ pc[r] = "BeforeListeners"
    /\ BeforeLoopLive(r, BeforeListener(callee[r], request[r]), iter[r])

\* Lines 78-79: the transport answered.
TransportReturnLive(r, status) ==
    /\ pc[r] = "Dispatched"
    /\ response' = [response EXCEPT ![r] = TransportResponse(request[r], status)]
    /\ pc' = [pc EXCEPT ![r] = "AfterHook"]
    /\ callee' = [callee EXCEPT ![r] = "after"]
    /\ UNCHANGED <<cls, baseURL, beforeListeners, afterListeners, request, iter, result,
                   args, via, passed, answer, invoked, snap, dirty, ncalls>>

\* Lines 82-87 with the loop at position i and res the value of response.
AfterLoopLive(r, res, i) ==
    /\ response' = [response EXCEPT ![r] = res]
    /\ IF HasNext(afterListeners, i)
       THEN /\ pc' = [pc EXCEPT ![r] = "AfterListeners"]
            /\ iter' = [iter EXCEPT ![r] = i + 1]
            /\ callee' = [callee EXCEPT ![r] = afterListeners[i + 1]]
            /\ UNCHANGED result
       ELSE /\ pc' = [pc EXCEPT ![r] = "Completed"]
            /\ iter' = [iter EXCEPT ![r] = 0]
            /\ callee' = [callee EXCEPT ![r] = Null]
            /\ result' = [result EXCEPT ![r] = Fulfilled(res)]
    /\ UNCHANGED <<cls, baseURL, beforeListeners, afterListeners, request,
                   args, via, passed, answer, invoked, snap, dirty, ncalls>>

\* Lines 79-87: the after hook returned.
AfterHookReturnLive(r) ==
    /\ pc[r] = "AfterHook"
    /\ ~AfterRaises(cls, response[r])
    /\ AfterLoopLive(r, After(cls, request[r], response[r]), 0)

\* Lines 82-87: an after-listener returned.
AfterListenerReturnLive(r) ==
    /\ pc[r] = "AfterListeners"
    /\ ~AfterListenerRaises(callee[r], response[r])
    /\ AfterLoopLive(r, AfterListener(callee[r], request[r], response[r]), iter[r])

\* What the call is awaiting returns or fails, and the call goes on to its
\* next await or settles.  The function the callers register raises nothing
\* on the after channel (AfterListenerRaises).
Resume(r) ==
    \/ BeforeHookReturnLive(r)
    \/ BeforeHookThrow(r)
    \/ BeforeListenerReturnLive(r)
    \/ BeforeListenerThrow(r)
    \/ \E s \in Statuses : TransportReturnLive(r, s)
    \/ TransportThrow(r)
    \/ AfterHookReturnLive(r)
    \/ AfterHookThrow(r)
    \/ AfterListenerReturnLive(r)

NextLive ==
    \/ \E l \in SharedFns : OnLive("before", l)
    \/ \E l \in SharedFns : OnLive("after", l)
    \/ \E l \in SharedFns : OffLive("before", l)
    \/ \E l \in SharedFns : OffLive("after", l)
    \/ \E r \in Requests, p \in Paths, i \in Inits : FetchLive(r, p, i)
    \/ \E r \in Requests : BeforeHookReturnLive(r)
    \/ \E r \in Requests : BeforeHookThrow(r)
    \/ \E r \in Requests : BeforeListenerReturnLive(r)
    \/ \E r \in Requests : BeforeListenerThrow(r)
    \/ \E r \in Requests, s \in Statuses : TransportReturnLive(r, s)
    \/ \E r \in Requests : TransportThrow(r)
    \/ \E r \in Requests : AfterHookReturnLive(r)
    \/ \E r \in Requests : AfterHookThrow(r)
    \/ \E r \in Requests : AfterListenerReturnLive(r)

\* Every hook, listener and transport call returns or fails, and the event
\* loop then resumes the call that awaits it; nothing makes the callers call
\* fetch, on or off.  A call that is resumed moves to another await or to
\* the next entry of the loop, so each Resume step changes pc or iter.
SpecLive ==
    InitLive /\ [][NextLive]_vars /\ \A r \in Requests : WF_<<pc, iter>>(Resume(r))

\* ------------------------------------------------------------- properties
BeforeStages == {"before"} \cup BeforeFns

AfterStages == {"after"} \cup AfterFns

\* The call has handed a request to the transport.
Sent(r) == Has(invoked[r], "fetch")

\* The before-listeners, and the after-listeners, the call has invoked.
BeforeInvoked(r) == SelectSeq(invoked[r], LAMBDA f : f \in BeforeFns)

AfterInvoked(r) == SelectSeq(invoked[r], LAMBDA f : f \in AfterFns)

Last(seq) == seq[Len(seq)]

IsRejected(r) == result[r].state = "rejected"

\* The transport has answered the call, and with what.
Answered(r) == answer[r] # <<>>

Answer(r) == answer[r][1]

\* No on or off call changed the event's registry while the call iterated it.
Undisturbed(r, event) == dirty[r] \cap {<<event, "on">>, <<event, "off">>} = {}

RECURSIVE ChainBefore(_, _)
\* Lk(...L1(req)...) for the listeners fns = <<L1, ..., Lk>>.
ChainBefore(fns, req) ==
    IF fns = <<>> THEN req
    ELSE ChainBefore(Tail(fns), BeforeListener(Head(fns), req))

RECURSIVE ChainAfter(_, _, _)
\* Ak(...A1(res)...) for the listeners fns = <<A1, ..., Ak>>.
ChainAfter(fns, req, res) ==
    IF fns = <<>> THEN res
    ELSE ChainAfter(Tail(fns), req, AfterListener(Head(fns), req, res))

\* C1: when no on/off call changes the before registry while a call iterates
\* it, the request the call hands to the transport is the request built from
\* its arguments, passed through the subclass before hook first and then
\* through the registered before-listeners in registration order, each one
\* receiving the previous one's output.
C1_BeforeChain ==
    \A r \in Requests :
        (Sent(r) /\ Undisturbed(r, "before")) =>
            request[r] = ChainBefore(snap[r].before,
                                     Before(cls, NewRequest(args[r].path, args[r].init)))

\* A custom client with two listeners registered, b2 first, whose request
\* went out: X-Custom is what b1, the last writer, set.
C1_Witness ==
    \E r \in Requests :
        /\ Sent(r) /\ Undisturbed(r, "before")
        /\ cls = "CustomClient"
        /\ snap[r].before = <<"b2", "b1">>
        /\ request[r].marks = <<"Sub-Class", "Second", "First">>
        /\ XCustom(request[r]) = "First"

\* C2: when no on/off call changes the after registry while a call iterates
\* it, the response fetch returns is the transport's response passed through
\* the subclass after hook first and then through the registered
\* after-listeners in registration order.
C2_AfterChain ==
    \A r \in Requests :
        (pc[r] = "Completed" /\ Undisturbed(r, "after")) =>
            result[r] = Fulfilled(ChainAfter(snap[r].after, request[r],
                                             After(cls, request[r], Answer(r))))

\* A completed call that ran two after-listeners, second-registered a1 last.
C2_Witness ==
    \E r \in Requests :
        /\ pc[r] = "Completed" /\ Undisturbed(r, "after")
        /\ snap[r].after = <<"a2", "a1">>
        /\ result[r].value.marks = <<"UnauthorizedChecked", "BadRequestChecked">>

\* The stages of section 4.2, in their order; Built is passed inside Fetch.
Rank(stage) ==
    CASE stage = "Idle" -> 0
      [] stage = "BeforeHook" -> 2
      [] stage = "BeforeListeners" -> 3
      [] stage = "Dispatched" -> 4
      [] stage = "AfterHook" -> 5
      [] stage = "AfterListeners" -> 6
      [] stage = "Completed" -> 7
      [] stage = "Failed" -> 8

\* The stage in which a function is invoked.
StageOf(f) ==
    CASE f = "before" -> "BeforeHook"
      [] f \in BeforeFns -> "BeforeListeners"
      [] f = "fetch" -> "Dispatched"
      [] f = "after" -> "AfterHook"
      [] f \in AfterFns -> "AfterListeners"

\* g may be the invocation that follows the invocation of f: the before hook
\* is followed by a before-listener or the transport, a before-listener
\* likewise, the transport by the after hook, the after hook and an
\* after-listener by an after-listener.
Follows(f, g) ==
    \/ f \in BeforeStages /\ g \in BeforeFns \cup {"fetch"}
    \/ f = "fetch" /\ g = "after"
    \/ f \in AfterStages /\ g \in AfterFns

\* The invocations of a call are in stage order, the before hook first, and
\* the call is in the stage of its last invocation until it ends.
InvokedInOrder(r) ==
    LET log == invoked[r]
        n == Len(log)
    IN  /\ pc[r] = "Idle" <=> n = 0
        /\ n > 0 => log[1] = "before"
        /\ \A i \in 1..(n - 1) : Follows(log[i], log[i + 1])
        /\ pc[r] \notin {"Idle", "Completed", "Failed"} => pc[r] = StageOf(log[n])
        /\ pc[r] = "Completed" => log[n] \in AfterStages

\* C3: a call moves through the stages in the one order BeforeHook,
\* BeforeListeners, Dispatched, AfterHook, AfterListeners, Completed (or to
\* Failed): the functions are invoked in stage order, no listener before its
\* channel's hook returned, no transport before the before channel ended, no
\* after hook before the transport answered; every change of stage is to a
\* later stage, and what was invoked stays invoked.
C3_StageOrder ==
    /\ [](\A r \in Requests : InvokedInOrder(r))
    /\ [][\A r \in Requests :
            /\ pc'[r] # pc[r] => Rank(pc'[r]) > Rank(pc[r])
            /\ invoked'[r] # invoked[r] =>
                 invoked'[r] = Append(invoked[r], Last(invoked'[r]))]_vars

\* A call that went through all seven stages.
C3_Witness ==
    \E r \in Requests :
        /\ pc[r] = "Completed"
        /\ invoked[r] = <<"before", "b1", "b2", "fetch", "after", "a1">>

\* C4: a listener that was registered when a call began iterating a channel
\* is invoked by that call, also when off removes it before its turn.
C4_InFlightUnaffectedByOff ==
    \A r \in Requests :
        /\ Sent(r) => \A l \in Range(snap[r].before) : Has(invoked[r], l)
        /\ pc[r] = "Completed" => \A l \in Range(snap[r].after) : Has(invoked[r], l)

\* C5: a call invokes no listener that was registered after the call began
\* iterating the channel.
C5_AddedMidIterationNotInvoked ==
    \A r \in Requests :
        \A i \in 1..Len(invoked[r]) :
            /\ invoked[r][i] \in BeforeFns => Has(snap[r].before, invoked[r][i])
            /\ invoked[r][i] \in AfterFns => Has(snap[r].after, invoked[r][i])

\* C6: when a hook or a listener fails, the call is Failed, the function that
\* failed is the last one the call ever invokes, a failure in the before
\* channel leaves the transport, the after hook and the after-listeners
\* uninvoked, and the call stays Failed with its failure.
C6_FailureAborts ==
    /\ [](\A r \in Requests :
            IsRejected(r) =>
                /\ pc[r] = "Failed"
                /\ Last(invoked[r]) = result[r].reason.by
                /\ result[r].reason.by \in BeforeStages =>
                     \A i \in 1..Len(invoked[r]) : invoked[r][i] \in BeforeStages)
    /\ [][\A r \in Requests :
            (IsRejected(r) \/ pc[r] = "Failed") =>
                /\ pc'[r] = pc[r]
                /\ invoked'[r] = invoked[r]
                /\ result'[r] = result[r]]_vars

\* The first of two registered before-listeners failed; the second never ran.
C6_Witness ==
    \E r \in Requests :
        /\ pc[r] = "Failed"
        /\ snap[r].before = <<"b1", "b2">>
        /\ beforeListeners = <<"b1", "b2">>
        /\ afterListeners = <<"a1">>
        /\ result[r] = Rejected(Thrown("b1"))
        /\ invoked[r] = <<"before", "b1">>

\* The failure of the first registered after-listener that raises on the
\* transport's answer, if one does.
ExpectedAfter(r) ==
    LET fns == snap[r].after
        raisers == {i \in 1..Len(fns) : AfterListenerRaises(fns[i], Answer(r))}
        first == CHOOSE i \in raisers : \A j \in raisers : i <= j
    IN  IF raisers = {} THEN <<>> ELSE <<Thrown(fns[first])>>

\* C7: a failed call rejects with the very failure the failing function
\* raised.  Of the functions that raise on a response it is the first in
\* pipeline order whose failure comes out: the subclass after hook's when it
\* raises, else that of the first registered after-listener that raises.
C7_FailureUnchanged ==
    \A r \in Requests :
        /\ IsRejected(r) => result[r].reason = Thrown(Last(invoked[r]))
        /\ (Answered(r) /\ pc[r] = "Failed") =>
              IF AfterRaises(cls, Answer(r))
              THEN result[r] = Rejected(Thrown("after"))
              ELSE Undisturbed(r, "after") => ExpectedAfter(r) = <<result[r].reason>>
        /\ (pc[r] = "Completed" /\ Undisturbed(r, "after")) =>
              (~AfterRaises(cls, Answer(r)) /\ ExpectedAfter(r) = <<>>)

\* Listeners raising on 400 and on 401, in that order, and a 401 answer.
C7_Witness ==
    \E r \in Requests :
        /\ snap[r].after = <<"a1", "a2">>
        /\ Undisturbed(r, "after")
        /\ Answered(r) /\ Answer(r).status = 401
        /\ result[r] = Rejected(Thrown("a2"))
        /\ result[r].reason.message = "Unauthorized"

\* C8: when the transport fails, fetch fails with the transport's failure and
\* the call invokes nothing after the transport.
C8_TransportFailure ==
    \A r \in Requests :
        (Sent(r) /\ pc[r] # "Dispatched" /\ ~Answered(r)) =>
            /\ pc[r] = "Failed"
            /\ result[r] = Rejected(Thrown("fetch"))
            /\ Last(invoked[r]) = "fetch"

\* The transport failed on a client that has an after-listener registered.
C8_Witness ==
    \E r \in Requests :
        /\ pc[r] = "Failed"
        /\ result[r].reason.by = "fetch"
        /\ afterListeners = <<"a1", "a2">>
        /\ cls = "CustomClient"

\* set without the value x, the other entries in their order.
Without(set, x) ==
    IF ~Has(set, x) THEN set
    ELSE LET k == IndexOf(set, x)
         IN  [i \in 1..(Len(set) - 1) |-> IF i < k THEN set[i] ELSE set[i + 1]]

\* C9: off(event, L) leaves the event's registry as it was without L, the
\* other listeners (another function with L's body among them) in their order, and
\* the other registry as it was; a call invokes only listeners that are
\* registered at the moment it invokes them, and a call during whose
\* iteration the registry does not change invokes all of them in order.
C9_OffRemovesExactly ==
    /\ [][\A l \in BeforeFns :
            Off("before", l) =>
                /\ beforeListeners' = Without(beforeListeners, l)
                /\ afterListeners' = afterListeners]_vars
    /\ [][\A l \in AfterFns :
            Off("after", l) =>
                /\ afterListeners' = Without(afterListeners, l)
                /\ beforeListeners' = beforeListeners]_vars
    /\ [][\A r \in Requests :
            invoked'[r] # invoked[r] =>
                /\ Last(invoked'[r]) \in BeforeFns => Has(beforeListeners, Last(invoked'[r]))
                /\ Last(invoked'[r]) \in AfterFns => Has(afterListeners, Last(invoked'[r]))]_vars
    /\ [](\A r \in Requests :
            /\ (Sent(r) /\ Undisturbed(r, "before")) => BeforeInvoked(r) = snap[r].before
            /\ (pc[r] = "Completed" /\ Undisturbed(r, "after")) =>
                  AfterInvoked(r) = snap[r].after)

\* off("before", b1) while b2, another function with the body of b1, is
\* registered: b2 stays and is invoked.
C9_Witness ==
    \E r \in Requests :
        /\ <<"before", "off">> \in dirty[r]
        /\ snap[r].before = <<"b1", "b2">>
        /\ beforeListeners = <<"b2">>
        /\ Body("b1") = Body("b2")
        /\ Sent(r)
        /\ BeforeInvoked(r) = <<"b1", "b2">>

\* C10: on(event, L) for a registered L changes nothing: a registry never
\* holds a listener twice, holds L once after on(event, L), and a call
\* during whose iteration no off is made invokes each listener at most
\* once, and exactly once each listener registered when it began.
C10_OnIdempotent ==
    /\ [](\A f \in BeforeFns \cup AfterFns :
            Count(beforeListeners, f) <= 1 /\ Count(afterListeners, f) <= 1)
    /\ [][\A l \in BeforeFns :
            On("before", l) =>
                /\ Count(beforeListeners', l) = 1
                /\ Has(beforeListeners, l) => beforeListeners' = beforeListeners]_vars
    /\ [][\A l \in AfterFns :
            On("after", l) =>
                /\ Count(afterListeners', l) = 1
                /\ Has(afterListeners, l) => afterListeners' = afterListeners]_vars
    /\ [](\A r \in Requests :
            /\ <<"before", "off">> \notin dirty[r] =>
                 /\ \A f \in BeforeFns : Count(invoked[r], f) <= 1
                 /\ Sent(r) => \A f \in Range(snap[r].before) : Count(invoked[r], f) = 1
            /\ <<"after", "off">> \notin dirty[r] =>
                 /\ \A f \in AfterFns : Count(invoked[r], f) <= 1
                 /\ pc[r] = "Completed" =>
                      \A f \in Range(snap[r].after) : Count(invoked[r], f) = 1)

\* on("before", b1) was called again while a call was iterating the registry
\* that held b1; the call invoked b1 once.
C10_Witness ==
    \E r \in Requests :
        /\ <<"before", "on-present">> \in dirty[r]
        /\ dirty[r] = {<<"before", "on-present">>}
        /\ beforeListeners = <<"b1">>
        /\ Sent(r)
        /\ Count(invoked[r], "b1") = 1

\* C11: off(event, L) for a listener L that is not in the event's registry
\* can always be made (it has no failing outcome), and leaves both registries
\* as they were, content and order, and every running loop at its position.
C11_OffAbsentIsNoOp ==
    /\ [][\A l \in BeforeFns :
            (Off("before", l) /\ ~Has(beforeListeners, l)) =>
                /\ beforeListeners' = beforeListeners
                /\ afterListeners' = afterListeners
                /\ iter' = iter]_vars
    /\ [][\A l \in AfterFns :
            (Off("after", l) /\ ~Has(afterListeners, l)) =>
                /\ beforeListeners' = beforeListeners
                /\ afterListeners' = afterListeners
                /\ iter' = iter]_vars
    /\ [](ncalls < MaxCalls =>
            /\ \A l \in BeforeFns : ENABLED Off("before", l)
            /\ \A l \in AfterFns : ENABLED Off("after", l))

\* off("before", b2) was called, b2 not registered, while a call was iterating
\* the registry that held b1: b1 stayed and the call went on to the transport.
C11_Witness ==
    \E r \in Requests :
        /\ dirty[r] = {<<"before", "off-absent">>}
        /\ snap[r].before = <<"b1">>
        /\ beforeListeners = <<"b1">>
        /\ Sent(r)
        /\ BeforeInvoked(r) = <<"b1">>

\* The call found both registries empty when it came to them: the hooks
\* are those of the base class and no listener took part.
Plain(r) == cls = "APIClient" /\ snap[r].before = <<>> /\ snap[r].after = <<>>

\* C12: on a client of the base class, a call that finds no listener
\* registered returns the very response the transport gave, status and body,
\* whatever the status; once the transport has answered the call does not
\* fail, and when it fails it is with the transport's failure.
C12_PlainReturnsAnswer ==
    \A r \in Requests :
        Plain(r) =>
            /\ pc[r] = "Completed" =>
                  /\ result[r] = Fulfilled(Answer(r))
                  /\ result[r].value.status = Answer(r).status
                  /\ result[r].value.body = Answer(r).body
            /\ Answered(r) => pc[r] \in {"AfterHook", "Completed"}
            /\ pc[r] = "Failed" => result[r] = Rejected(Thrown("fetch"))

\* A 400 answer reached the caller of a plain client as a fulfilled promise.
C12_Witness ==
    \E r \in Requests :
        /\ Plain(r)
        /\ pc[r] = "Completed"
        /\ invoked[r] = <<"before", "fetch", "after">>
        /\ result[r].state = "fulfilled"
        /\ result[r].value.status = 400

\* The verb of each wrapper.
Verb ==
    [get |-> "GET", post |-> "POST", put |-> "PUT", patch |-> "PATCH", delete |-> "DELETE"]

\* The options init, except that method is verb.
WithMethod(init, verb) ==
    [k \in DOMAIN init \cup {"method"} |-> IF k = "method" THEN verb ELSE init[k]]

\* The call is as a call fetch(path, init) is at the same point: made with
\* these arguments, through the stages in their order, the request sent is
\* the before channel's output on the request built from path and init, and
\* the value returned is the after channel's output on the answer.
AsFetch(r, path, init) ==
    /\ args[r] = [path |-> path, init |-> init]
    /\ InvokedInOrder(r)
    /\ pc[r] = "BeforeHook" => request[r] = NewRequest(path, init)
    /\ Sent(r) =>
          request[r] = ChainBefore(snap[r].before, Before(cls, NewRequest(path, init)))
    /\ pc[r] = "Completed" =>
          result[r] = Fulfilled(ChainAfter(snap[r].after, request[r],
                                           After(cls, request[r], Answer(r))))

\* C13: a call made by get, post, put, patch or delete with a path and
\* options is at every point as the call fetch(path, options') is, options'
\* being the options given with method set to the wrapper's verb, also when
\* the options given carry another method; the request has the verb as its
\* method and the other options as given.
C13_VerbIsFetchWithMethod ==
    \A r \in Requests :
        (pc[r] # "Idle" /\ via[r].name # "fetch") =>
            /\ AsFetch(r, via[r].path, WithMethod(via[r].init, Verb[via[r].name]))
            /\ request[r].method = Verb[via[r].name]
            /\ request[r].signal = Option(via[r].init, "signal", Null)

\* delete("users", { method: "POST", signal }) on a client with a listener
\* on each channel went out as DELETE, with the signal, through the pipeline.
C13_Witness ==
    \E r \in Requests :
        /\ pc[r] = "Completed"
        /\ via[r] = [name |-> "delete", path |-> <<"users">>,
                     init |-> [method |-> "POST", signal |-> "timeout"]]
        /\ invoked[r] = <<"before", "b1", "fetch", "after", "a1">>
        /\ request[r].method = "DELETE"
        /\ request[r].signal = "timeout"

\* The address a path resolves to against a base URL by the rules of the
\* URL standard, for the paths and base URLs of SpecCalls: an absolute path
\* replaces the base's path, a relative one its last segment, and ".." goes
\* up one more.
StandardResolution(base, path) ==
    CASE path = <<"", "path">> -> "https://example.com/path"
      [] path = <<"..", "users">> -> "https://example.com/users"
      [] path = <<"users">> ->
            IF base = ExampleURL THEN "https://example.com/users"
            ELSE "https://example.com/api/users"

\* The before hook of the client's class returns requests with the address
\* it was given; the listeners of the model all do.
HookKeepsAddress(r) ==
    LET built == NewRequest(args[r].path, args[r].init)
    IN  Before(cls, built).url = built.url

\* C14 as stated: whatever the hooks and listeners, the request a call hands
\* to the transport has the address its path resolves to against the base
\* URL.
C14_DispatchedAddress ==
    \A r \in Requests :
        Sent(r) => request[r].url = StandardResolution(baseURL, args[r].path)

\* C14 amended: the request fetch builds has the address its path resolves to
\* against the base URL the client was constructed with, and that is the
\* address of the request handed to the transport when no before stage
\* returns a request with another address.
C14_DispatchedAddressKept ==
    \A r \in Requests :
        /\ pc[r] = "BeforeHook" =>
              request[r].url = StandardResolution(baseURL, args[r].path)
        /\ (Sent(r) /\ HookKeepsAddress(r)) =>
              request[r].url = StandardResolution(baseURL, args[r].path)

\* "../users" against https://example.com/api/v1, on a subclass with two
\* before-listeners, went out to https://example.com/users.
C14_Witness ==
    \E r \in Requests :
        /\ Sent(r) /\ HookKeepsAddress(r)
        /\ cls = "CustomClient"
        /\ baseURL = URL("https://example.com", <<"api", "v1">>)
        /\ args[r].path = <<"..", "users">>
        /\ BeforeInvoked(r) = <<"b2", "b1">>
        /\ request[r].url = "https://example.com/users"

\* The number of times the call has called the transport.
Dispatches(r) == Count(invoked[r], "fetch")

\* C15: a call calls the transport at most once: not while it is in the
\* before channel, not at all when the before channel fails, and exactly
\* once when the before channel ended without failure, whatever comes after:
\* a transport failure, a failure of the after hook or of an after-listener,
\* or completion.
C15_DispatchedOnce ==
    \A r \in Requests :
        /\ Dispatches(r) <= 1
        /\ pc[r] \in {"Idle", "BeforeHook", "BeforeListeners"} => Dispatches(r) = 0
        /\ pc[r] \in {"Dispatched", "AfterHook", "AfterListeners", "Completed"} =>
              Dispatches(r) = 1
        /\ IsRejected(r) =>
              IF result[r].reason.by \in BeforeStages
              THEN Dispatches(r) = 0
              ELSE Dispatches(r) = 1

\* An after-listener failed on the answer: the request went out once.
C15_Witness ==
    \E r \in Requests :
        /\ pc[r] = "Failed"
        /\ result[r] = Rejected(Thrown("a1"))
        /\ Answered(r)
        /\ Dispatches(r) = 1

\* C16: no step of fetch changes a registry: every step that is not a call
\* of on or off leaves both registries as they are, content and order, so a
\* call during which nobody calls on or off ends, completed or failed, with
\* the registries it started with.
C16_FetchKeepsRegistries ==
    [][ncalls' = ncalls =>
          /\ beforeListeners' = beforeListeners
          /\ afterListeners' = afterListeners]_vars

\* A call went through both loops with no on or off during them and
\* completed; the registries are what the loops began with.
C16_Witness ==
    \E r \in Requests :
        /\ pc[r] = "Completed"
        /\ dirty[r] = {}
        /\ invoked[r] = <<"before", "b1", "fetch", "after", "a2", "a1">>
        /\ snap[r].before = <<"b1">> /\ beforeListeners = <<"b1">>
        /\ snap[r].after = <<"a2", "a1">> /\ afterListeners = <<"a2", "a1">>

\* C17: the listeners a call uses for a channel are those registered when
\* the call comes to the channel's listener stage, the on and off calls made
\* before that moment counted, those made after it not: a call that got
\* through a channel invoked the registry of that moment, in its order.
C17_FixedAtListenerStage ==
    \A r \in Requests :
        /\ Sent(r) => BeforeInvoked(r) = snap[r].before
        /\ pc[r] = "Completed" => AfterInvoked(r) = snap[r].after

\* C18: the transport, the after hook and every after-listener of a call are
\* given one and the same request: the one the last before stage returned,
\* which is the before channel's output on the request fetch built, and not
\* the request fetch built when a before stage changed it.
C18_AfterStagesGetSentRequest ==
    \A r \in Requests :
        /\ passed[r] = IF Sent(r) THEN {request[r]} ELSE {}
        /\ (Sent(r) /\ Undisturbed(r, "before")) =>
              passed[r] = {ChainBefore(snap[r].before,
                                       Before(cls, NewRequest(args[r].path, args[r].init)))}

\* The hook of the mirror subclass returned another request and a
\* before-listener changed that; the after hook and the two after-listeners
\* got what went to the transport, not the request fetch built.
C18_Witness ==
    \E r \in Requests :
        /\ pc[r] = "Completed"
        /\ cls = "MirrorClient"
        /\ invoked[r] = <<"before", "b1", "fetch", "after", "a1", "a2">>
        /\ passed[r] = {request[r]}
        /\ request[r].url = "https://mirror.example.com/"
        /\ request[r].marks = <<"First">>
        /\ request[r] # NewRequest(args[r].path, args[r].init)

\* C19: on and off for one event leave the other event's registry as it
\* is, and the function a call invokes in a channel's listener stage is
\* registered on that channel at that moment, so a function registered on
\* the other channel only is not invoked there.
C19_ChannelsIndependent ==
    /\ [][\A l \in ChannelBeforeFns :
            (On("before", l) \/ Off("before", l)) => afterListeners' = afterListeners]_vars
    /\ [][\A l \in ChannelAfterFns :
            (On("after", l) \/ Off("after", l)) => beforeListeners' = beforeListeners]_vars
    /\ [][\A r \in Requests :
            invoked'[r] # invoked[r] =>
                /\ pc'[r] = "BeforeListeners" => Has(beforeListeners, callee'[r])
                /\ pc'[r] = "AfterListeners" => Has(afterListeners, callee'[r])]_vars

\* tap is registered on "before" only and a1 on "after": the call invoked
\* tap before the transport and not after it.
C19_Witness ==
    \E r \in Requests :
        /\ pc[r] = "Completed"
        /\ beforeListeners = <<"tap">>
        /\ afterListeners = <<"a1">>
        /\ dirty[r] = {}
        /\ invoked[r] = <<"before", "tap", "fetch", "after", "a1">>

\* The listeners of seq that come before x in it.
Earlier(seq, x) == {seq[i] : i \in 1..(IndexOf(seq, x) - 1)}

\* C20: a channel's listeners run in the order of their current
\* registrations.  on(event, L) leaves the registry as it is when L is
\* registered and puts L last when it is not, which is where off(event, L)
\* followed by on(event, L) leaves L; a call invokes a listener only after
\* the listeners that are then before it in the registry, and a call during
\* whose iteration the registry does not change invokes the registry in its
\* order.
C20_RegistrationOrder ==
    /\ [][\A l \in BeforeFns :
            /\ On("before", l) =>
                  beforeListeners' = IF Has(beforeListeners, l) THEN beforeListeners
                                     ELSE Append(beforeListeners, l)
            /\ Off("before", l) => ~Has(beforeListeners', l)]_vars
    /\ [][\A l \in AfterFns :
            /\ On("after", l) =>
                  afterListeners' = IF Has(afterListeners, l) THEN afterListeners
                                    ELSE Append(afterListeners, l)
            /\ Off("after", l) => ~Has(afterListeners', l)]_vars
    /\ [][\A r \in Requests :
            invoked'[r] # invoked[r] =>
                /\ pc'[r] = "BeforeListeners" =>
                      Earlier(beforeListeners, callee'[r]) \subseteq Range(invoked[r])
                /\ pc'[r] = "AfterListeners" =>
                      Earlier(afterListeners, callee'[r]) \subseteq Range(invoked[r])]_vars
    /\ [](\A r \in Requests :
            /\ (Sent(r) /\ Undisturbed(r, "before")) => BeforeInvoked(r) = snap[r].before
            /\ (pc[r] = "Completed" /\ Undisturbed(r, "after")) =>
                  AfterInvoked(r) = snap[r].after
            /\ (Sent(r) /\ Undisturbed(r, "before") /\ snap[r].before # <<>>) =>
                  XCustom(request[r]) = Writes(Last(snap[r].before)))

\* off("before", b1) and on("before", b1) on the registry <<b1, b2>> left
\* <<b2, b1>>; the call that followed invoked b2 first and b1 last, whose
\* header value went out.
C20_Witness ==
    \E r \in Requests :
        /\ ncalls = 2
        /\ beforeListeners = <<"b2", "b1">>
        /\ Sent(r)
        /\ dirty[r] = {}
        /\ snap[r].before = <<"b2", "b1">>
        /\ BeforeInvoked(r) = <<"b2", "b1">>
        /\ XCustom(request[r]) = "First"

\* C21: within one call each listener is invoked at most once per channel,
\* whatever on and off calls are made while the call runs, off(event, L)
\* followed by on(event, L) during the loop over that event's listeners
\* included.
C21_InvokedOncePerChannel ==
    \A r \in Requests :
        /\ \A l \in BeforeFns : Count(BeforeInvoked(r), l) <= 1
        /\ \A l \in AfterFns : Count(AfterInvoked(r), l) <= 1

\* C22: every call of fetch comes to Completed or Failed when every hook,
\* listener and transport call returns or fails, whatever on and off calls
\* are made while the call runs: no sequence of registrations and removals
\* keeps a call in a channel for ever.
C22_EveryCallSettles ==
    \A r \in Requests : (pc[r] # "Idle") ~> (pc[r] \in {"Completed", "Failed"})

====
